---- MODULE Spec2Model ----
(***************************************************************************)
(* DShot RMT encoder (dshot_rmt_encoder.c): the frame builder              *)
(* make_dshot_frame, the two-phase encoder rmt_encode_dshot_esc with its   *)
(* reset / delete callbacks, and the constructor                           *)
(* rmt_new_dshot_esc_encoder.  The bytes encoder and the copy encoder are  *)
(* ESP-IDF collaborators; they are modelled by their interface contract.   *)
(***************************************************************************)
EXTENDS Integers, Naturals, Sequences, FiniteSets, TLC

\* ------------------------------------------------------------------ bounds
\* largest throttle input drawn for the frame builder (uint16_t argument)
MaxThrottleIn == 4095
\* throttle commands handed to encode: the ThrottleSpan values below
\* ExampleThrottle, and ExampleThrottle
ThrottleSpan == 1
\* free symbol slots the transmit channel offers to one encode call: 0 .. MaxFree
MaxFree == 18
\* the number of encode calls of one logical frame is counted up to MaxCalls
MaxCalls == 3
\* config->resolution drawn for the delay symbol: 1 .. MaxResolutionMHz MHz
MaxResolutionMHz == 80
\* config->post_delay_us drawn for the delay symbol: 0 .. MaxPostDelayUs
MaxPostDelayUs == 900

\* ------------------------------------------------------- program constants
\* the throttle of the worked CRC example in make_dshot_frame
ExampleThrottle == 1046
RMT_ENCODING_RESET == 0
FRAME_SYMBOLS == 16
GAP_SYMBOLS == 1
GAP == 2

COMPLETE == "RMT_ENCODING_COMPLETE"
MEM_FULL == "RMT_ENCODING_MEM_FULL"
ESP_OK == "ESP_OK"
ESP_ERR_INVALID_ARG == "ESP_ERR_INVALID_ARG"
ESP_ERR_NO_MEM == "ESP_ERR_NO_MEM"
ESP_FAIL == "ESP_FAIL"

Min(a, b) == IF a < b THEN a ELSE b
Max(a, b) == IF a < b THEN b ELSE a

\* ------------------------------------------------------ C integer operators
Bit(x, i) == (x \div (2 ^ i)) % 2

RECURSIVE XorW(_, _, _)
\* a ^ b on w-bit operands
XorW(a, b, w) ==
    IF w = 0 THEN 0
    ELSE (((a % 2) + (b % 2)) % 2) + 2 * XorW(a \div 2, b \div 2, w - 1)

RECURSIVE AndW(_, _, _)
\* a & b on w-bit operands
AndW(a, b, w) ==
    IF w = 0 THEN 0
    ELSE ((a % 2) * (b % 2)) + 2 * AndW(a \div 2, b \div 2, w - 1)

\* ~crc stored back into a uint8_t
NotU8(crc) == 255 - crc

\* ------------------------------------------------------------ dshot_frame_t
\* the union's 16-bit val for the bit-fields crc:4 (bits 0-3), telemetry:1
\* (bit 4), throttle:11 (bits 5-15); a bit-field keeps the low bits only
FrameValClamped(crc, telemetry, throttle) ==
    (crc % 16) + 16 * (telemetry % 2) + 32 * Min(throttle, 2047)
FrameVal(crc, telemetry, throttle) ==
    (crc % 16) + 16 * (telemetry % 2) + 32 * (throttle % 2048)

BoolBit(b) == IF b THEN 1 ELSE 0

\* uint8_t crc = val ^ (val >> 4) ^ (val >> 8);
CrcSeed(val) ==
    XorW(XorW(val, val \div 16, 16), val \div 256, 16) % 256

\* if (bidirectional) crc = ~crc;
CrcInvert(crc, bidirectional) == IF bidirectional THEN NotU8(crc) ELSE crc

CrcMaskLowNibble(crc) == AndW(crc, 15, 8)
\* crc = crc & 0xF0;
CrcMask(crc) == AndW(crc, 240, 8)

SwapBytesMissing(val) == val
\* frame->val = ((val & 0xFF) << 8) | ((val & 0xFF00) >> 8);
SwapBytes(val) ==
    ((AndW(val, 255, 16) * 256) % 65536) + (AndW(val, 65280, 16) \div 256)

\* the 4-bit crc make_dshot_frame stores in frame->crc
frame_crc(throttle, telemetry, bidirectional) ==
    LET val == FrameVal(0, BoolBit(telemetry), throttle)
        crc == CrcMask(CrcInvert(CrcSeed(val), bidirectional))
    IN (crc \div 16) % 16

\* frame->val on return
make_dshot_frame(throttle, telemetry, bidirectional) ==
    SwapBytes(FrameVal(frame_crc(throttle, telemetry, bidirectional),
                       BoolBit(telemetry), throttle))

\* the two bytes of the frame in memory order (little-endian host)
FrameBytes(val) == << val % 256, val \div 256 >>

WireBitLsbFirst(bytes, i) == Bit(bytes[((i - 1) \div 8) + 1], (i - 1) % 8)
\* bit i (1..16) the bytes encoder takes from the buffer, msb_first = 1
WireBit(bytes, i) == Bit(bytes[((i - 1) \div 8) + 1], 7 - ((i - 1) % 8))

\* ------------------------------------------------ sub-encoders (ESP-IDF)
\* One encode call of a sub-encoder that has `size` symbols to produce, has
\* produced `pos` of them in earlier calls and is offered `free` slots: it
\* writes as many of the remaining symbols as fit.  It reports COMPLETE
\* when the last symbol is written (its position returns to 0) and MEM_FULL
\* when no slot is left.
\* `short` = 0 is this behaviour.  The interface alone also admits a call
\* that returns neither flag: one that stops `short` symbols early while
\* slots are left.
SubEncodeShort(pos, size, free, short) ==
    LET n == Max(0, Min(free, size - pos) - short)
    IN [ written |-> n,
         pos     |-> IF pos + n = size THEN 0 ELSE pos + n,
         session |-> (IF pos + n = size THEN {COMPLETE} ELSE {})
                     \cup (IF n = free THEN {MEM_FULL} ELSE {}) ]

SubEncode(pos, size, free) == SubEncodeShort(pos, size, free, 0)

\* the symbols the bytes encoder appends: bits pos+1 .. pos+n of the buffer
BytesSymbols(bytes, pos, n) == [ i \in 1..n |-> WireBit(bytes, pos + i) ]
BytesIndex(pos, n) == [ i \in 1..n |-> pos + i ]

\* the symbol the copy encoder appends: dshot_delay_symbol
CopySymbols(n) == [ i \in 1..n |-> GAP ]
CopyIndex(pos, n) == [ i \in 1..n |-> FRAME_SYMBOLS + pos + i ]

\* ------------------------------------------------- rmt_encode_dshot_esc
FramePhaseAlways(st) == TRUE
\* switch (dshot_encoder->state) case 0:
FramePhase(st) == st = 0

FrameNextStateNever(st, session) == st
FrameNextStateEager(st, session) == 1
FrameNextStateAfterYield(st, session) ==
    IF COMPLETE \in session /\ MEM_FULL \notin session THEN 1 ELSE st
\* case 0: if (session_state & RMT_ENCODING_COMPLETE) state = 1;
FrameNextState(st, session) == IF COMPLETE \in session THEN 1 ELSE st

FrameYieldNever(session) == FALSE
\* case 0: if (session_state & RMT_ENCODING_MEM_FULL) goto out;
FrameYield(session) == MEM_FULL \in session

GapNextStateStuck(st, session) == st
GapNextStateAlways(st, session) == RMT_ENCODING_RESET
\* case 1: if (session_state & RMT_ENCODING_COMPLETE) state = RMT_ENCODING_RESET;
GapNextState(st, session) ==
    IF COMPLETE \in session THEN RMT_ENCODING_RESET ELSE st

GapRetStateNoComplete(session) ==
    IF MEM_FULL \in session THEN {MEM_FULL} ELSE {}
GapRetStateNoFull(session) ==
    IF COMPLETE \in session THEN {COMPLETE} ELSE {}
\* case 1: the flags or-ed into the returned state
GapRetState(session) ==
    (IF COMPLETE \in session THEN {COMPLETE} ELSE {})
    \cup (IF MEM_FULL \in session THEN {MEM_FULL} ELSE {})

\* One call of rmt_encode_dshot_esc.  st, bpos, cpos: dshot_encoder->state
\* and the positions of the two sub-encoders on entry; fr: the frame built
\* for this call; free: symbol slots the channel offers to this call;
\* sb, sg: symbols the bytes / copy encoder stop early in this call.
rmt_encode_dshot_esc_short(st, bpos, cpos, fr, free, sb, sg) ==
    LET doFrame == FramePhase(st)
        b       == IF doFrame
                   THEN SubEncodeShort(bpos, FRAME_SYMBOLS, free, sb)
                   ELSE [written |-> 0, pos |-> bpos, session |-> {}]
        st1     == IF doFrame THEN FrameNextState(st, b.session) ELSE st
        yield   == doFrame /\ FrameYield(b.session)
        doGap   == (doFrame /\ ~yield) \/ st = 1
        g       == IF doGap
                   THEN SubEncodeShort(cpos, GAP_SYMBOLS, free - b.written, sg)
                   ELSE [written |-> 0, pos |-> cpos, session |-> {}]
        st2     == IF doGap THEN GapNextState(st1, g.session) ELSE st1
    IN [ state           |-> st2,
         mid_state       |-> st1,
         bytes_pos       |-> b.pos,
         copy_pos        |-> g.pos,
         bytes_invoked   |-> doFrame,
         copy_invoked    |-> doGap,
         session_bytes   |-> b.session,
         session_copy    |-> g.session,
         ret_state       |-> IF yield THEN {MEM_FULL} ELSE GapRetState(g.session),
         encoded_symbols |-> b.written + g.written,
         symbols         |-> BytesSymbols(FrameBytes(fr), bpos, b.written)
                             \o CopySymbols(g.written),
         index           |-> BytesIndex(bpos, b.written)
                             \o CopyIndex(cpos, g.written) ]

\* the call with the ESP-IDF sub-encoders, which never stop early
rmt_encode_dshot_esc(st, bpos, cpos, fr, free) ==
    rmt_encode_dshot_esc_short(st, bpos, cpos, fr, free, 0, 0)

\* -------------------------------------------- rmt_new_dshot_esc_encoder
rmt_new_no_rollback(config_ok, ret_ok, alloc_ok, bytes_rc, copy_rc) ==
    IF ~(config_ok /\ ret_ok) THEN
        [ ret |-> ESP_ERR_INVALID_ARG, handle |-> FALSE, alloc_calls |-> 0,
          mem |-> "none", bytes |-> "NULL", copy |-> "NULL" ]
    ELSE IF ~alloc_ok THEN
        [ ret |-> ESP_ERR_NO_MEM, handle |-> FALSE, alloc_calls |-> 1,
          mem |-> "none", bytes |-> "NULL", copy |-> "NULL" ]
    ELSE IF bytes_rc # ESP_OK THEN
        [ ret |-> bytes_rc, handle |-> FALSE, alloc_calls |-> 1,
          mem |-> "freed", bytes |-> "NULL", copy |-> "NULL" ]
    ELSE IF copy_rc # ESP_OK THEN
        [ ret |-> copy_rc, handle |-> FALSE, alloc_calls |-> 1,
          mem |-> "freed", bytes |-> "live", copy |-> "NULL" ]
    ELSE
        [ ret |-> ESP_OK, handle |-> TRUE, alloc_calls |-> 1,
          mem |-> "allocated", bytes |-> "live", copy |-> "live" ]
rmt_new_handle_first(config_ok, ret_ok, alloc_ok, bytes_rc, copy_rc) ==
    IF ~(config_ok /\ ret_ok) THEN
        [ ret |-> ESP_ERR_INVALID_ARG, handle |-> FALSE, alloc_calls |-> 0,
          mem |-> "none", bytes |-> "NULL", copy |-> "NULL" ]
    ELSE IF ~alloc_ok THEN
        [ ret |-> ESP_ERR_NO_MEM, handle |-> FALSE, alloc_calls |-> 1,
          mem |-> "none", bytes |-> "NULL", copy |-> "NULL" ]
    ELSE IF bytes_rc # ESP_OK THEN
        [ ret |-> bytes_rc, handle |-> TRUE, alloc_calls |-> 1,
          mem |-> "freed", bytes |-> "NULL", copy |-> "NULL" ]
    ELSE IF copy_rc # ESP_OK THEN
        [ ret |-> copy_rc, handle |-> TRUE, alloc_calls |-> 1,
          mem |-> "freed", bytes |-> "deleted", copy |-> "NULL" ]
    ELSE
        [ ret |-> ESP_OK, handle |-> TRUE, alloc_calls |-> 1,
          mem |-> "allocated", bytes |-> "live", copy |-> "live" ]

\* config_ok / ret_ok: the two pointer arguments are non-null; alloc_ok:
\* rmt_alloc_encoder_mem returns storage; bytes_rc / copy_rc: what
\* rmt_new_bytes_encoder / rmt_new_copy_encoder return.  The result gives
\* the return code, whether *ret_encoder was written, how often the
\* allocator was called, and the fate of the three objects.
rmt_new_dshot_esc_encoder(config_ok, ret_ok, alloc_ok, bytes_rc, copy_rc) ==
    IF ~(config_ok /\ ret_ok) THEN
        [ ret |-> ESP_ERR_INVALID_ARG, handle |-> FALSE, alloc_calls |-> 0,
          mem |-> "none", bytes |-> "NULL", copy |-> "NULL" ]
    ELSE IF ~alloc_ok THEN
        [ ret |-> ESP_ERR_NO_MEM, handle |-> FALSE, alloc_calls |-> 1,
          mem |-> "none", bytes |-> "NULL", copy |-> "NULL" ]
    ELSE IF bytes_rc # ESP_OK THEN
        [ ret |-> bytes_rc, handle |-> FALSE, alloc_calls |-> 1,
          mem |-> "freed", bytes |-> "NULL", copy |-> "NULL" ]
    ELSE IF copy_rc # ESP_OK THEN
        [ ret |-> copy_rc, handle |-> FALSE, alloc_calls |-> 1,
          mem |-> "freed", bytes |-> "deleted", copy |-> "NULL" ]
    ELSE
        [ ret |-> ESP_OK, handle |-> TRUE, alloc_calls |-> 1,
          mem |-> "allocated", bytes |-> "live", copy |-> "live" ]

\* uint32_t delay_ticks = config->resolution / 1e6 * config->post_delay_us;
\* resolution is a whole number of MHz, so the quotient and the product are
\* exact in double arithmetic; within the bounds the product is below 2^32.
delay_ticks(resolution, post_delay_us) ==
    (resolution \div 1000000) * post_delay_us

\* duration0 and duration1 of rmt_symbol_word_t are 15-bit fields
DurationField(ticks) == ticks % 32768

dshot_delay_symbol_remainder(resolution, post_delay_us) ==
    LET t == delay_ticks(resolution, post_delay_us)
    IN [ level0 |-> 0, duration0 |-> DurationField(t \div 2),
         level1 |-> 0, duration1 |-> DurationField(t - (t \div 2)) ]
\* dshot_delay_symbol = { .level0 = 0, .duration0 = delay_ticks / 2,
\*                        .level1 = 0, .duration1 = delay_ticks / 2 }
make_dshot_delay_symbol(resolution, post_delay_us) ==
    LET t == delay_ticks(resolution, post_delay_us)
    IN [ level0 |-> 0, duration0 |-> DurationField(t \div 2),
         level1 |-> 0, duration1 |-> DurationField(t \div 2) ]

NewStateGap == RMT_ENCODING_RESET + 1
\* dshot_encoder->state of a new encoder.  The constructor never assigns it:
\* it is the zero that rmt_alloc_encoder_mem (a calloc) leaves there.
NewState == 0

\* ------------------------------------------------------------------ state
VARIABLES
    dshot_mem,       \* storage of the dshot_rmt_encoder_t: none / allocated / freed
    bytes_encoder,   \* dshot_encoder->bytes_encoder: NULL / live / deleted
    copy_encoder,    \* dshot_encoder->copy_encoder:  NULL / live / deleted
    bidirectional,   \* dshot_encoder->bidirectional
    state,           \* dshot_encoder->state
    bytes_pos,       \* symbols of the buffer the bytes encoder has emitted
    copy_pos,        \* symbols of the delay symbol the copy encoder has emitted
    throttle,        \* the throttle argument of make_dshot_frame
    telemetry_req,   \* its telemetry argument
    frame,           \* frame->val it returned
    last_op,         \* the operation that ran last
    args,            \* the arguments and collaborator results of the last constructor call
    ret,             \* esp_err_t returned by the last constructor / reset / del call
    ret_encoder,     \* whether the constructor wrote *ret_encoder
    alloc_calls,     \* calls of rmt_alloc_encoder_mem in the last constructor call
    call,            \* what the last encode call did and returned
    out,             \* symbols appended for the current logical frame
    out_idx,         \* for each of them, its position in frame + delay symbol (1..17)
    total,           \* sum of the counts returned for the current logical frame
    calls,           \* encode calls of the current logical frame (up to MaxCalls)
    reset_from,      \* state and bytes_pos on entry to the reset that ran last
    after_reset,     \* the current logical frame is the first one since a reset
    first_call,      \* the last operation was the first encode call of this encoder
    resolution,      \* config->resolution (Hz)
    post_delay_us,   \* config->post_delay_us
    dshot_delay_symbol  \* dshot_encoder->dshot_delay_symbol

vars == << dshot_mem, bytes_encoder, copy_encoder, bidirectional, state,
           bytes_pos, copy_pos, throttle, telemetry_req, frame, last_op,
           args, ret, ret_encoder, alloc_calls, call, out, out_idx, total,
           calls, reset_from, after_reset, first_call, resolution,
           post_delay_us, dshot_delay_symbol >>

objVars == << dshot_mem, bytes_encoder, copy_encoder, bidirectional >>
newVars == << args, ret_encoder, alloc_calls >>
cmdVars == << throttle, telemetry_req, frame >>
logVars == << call, out, out_idx, total, calls, reset_from, after_reset,
             first_call >>
cfgVars == << resolution, post_delay_us, dshot_delay_symbol >>

NoArgs == [ config_ok |-> TRUE, ret_ok |-> TRUE, alloc_ok |-> TRUE,
            bytes_rc |-> ESP_OK, copy_rc |-> ESP_OK ]

NoCall == [ entry_state |-> 0, mid_state |-> 0, bytes_invoked |-> FALSE,
            copy_invoked |-> FALSE, session_bytes |-> {}, session_copy |-> {},
            ret_state |-> {}, encoded_symbols |-> 0 ]

NoReset == [ state |-> 0, bytes_pos |-> 0 ]

\* the configuration the encoder of the state machine is built with: one
\* whose delay fits the symbol
NewResolution == MaxResolutionMHz * 1000000
NewPostDelayUs == MaxPostDelayUs \div MaxResolutionMHz

NoSymbol == [ level0 |-> 0, duration0 |-> 0, level1 |-> 0, duration1 |-> 0 ]
Resolutions == { m * 1000000 : m \in 1..MaxResolutionMHz }

Throttles == (ExampleThrottle - ThrottleSpan) .. ExampleThrottle
ErrCodes == { ESP_ERR_NO_MEM, ESP_ERR_INVALID_ARG, ESP_FAIL }

Live == dshot_mem = "allocated"

Init ==
    /\ dshot_mem = "none" /\ bytes_encoder = "NULL" /\ copy_encoder = "NULL"
    /\ bidirectional = FALSE
    /\ state = 0 /\ bytes_pos = 0 /\ copy_pos = 0
    /\ throttle = 0 /\ telemetry_req = FALSE /\ frame = 0
    /\ last_op = "init" /\ args = NoArgs /\ ret = ESP_OK
    /\ ret_encoder = FALSE /\ alloc_calls = 0
    /\ call = NoCall /\ out = << >> /\ out_idx = << >>
    /\ total = 0 /\ calls = 0
    /\ reset_from = NoReset /\ after_reset = FALSE /\ first_call = FALSE
    /\ resolution = 0 /\ post_delay_us = 0 /\ dshot_delay_symbol = NoSymbol

\* ------------------------------------------------------------ operations
\* rmt_new_dshot_esc_encoder, called while no encoder is held
New ==
    /\ ~Live
    /\ \E config_ok \in BOOLEAN, ret_ok \in BOOLEAN, alloc_ok \in BOOLEAN,
          bytes_rc \in {ESP_OK} \cup ErrCodes,
          copy_rc \in {ESP_OK} \cup ErrCodes, bidir \in BOOLEAN,
          res \in { NewResolution }, us \in { NewPostDelayUs } :
        LET r == rmt_new_dshot_esc_encoder(config_ok, ret_ok, alloc_ok,
                                           bytes_rc, copy_rc)
            ok == r.ret = ESP_OK
        IN /\ dshot_mem' = r.mem
           /\ state' = IF ok THEN NewState ELSE 0
           /\ resolution' = IF ok THEN res ELSE 0
           /\ post_delay_us' = IF ok THEN us ELSE 0
           /\ dshot_delay_symbol' = IF ok THEN make_dshot_delay_symbol(res, us)
                                    ELSE NoSymbol
           /\ bytes_encoder' = r.bytes
           /\ copy_encoder' = r.copy
           /\ bidirectional' = (r.ret = ESP_OK /\ bidir)
           /\ args' = [ config_ok |-> config_ok, ret_ok |-> ret_ok,
                        alloc_ok |-> alloc_ok, bytes_rc |-> bytes_rc,
                        copy_rc |-> copy_rc ]
           /\ ret' = r.ret
           /\ ret_encoder' = r.handle
           /\ alloc_calls' = r.alloc_calls
    /\ bytes_pos' = 0 /\ copy_pos' = 0
    /\ last_op' = "new"
    /\ call' = NoCall /\ out' = << >> /\ out_idx' = << >>
    /\ total' = 0 /\ calls' = 0
    /\ reset_from' = NoReset /\ after_reset' = FALSE /\ first_call' = FALSE
    /\ UNCHANGED cmdVars

\* rmt_encode_dshot_esc, one call.  thrs, tels: the commands the caller may
\* pass; frees: the symbol slots the channel may offer; shorts: the symbols
\* a sub-encoder may stop early; logged: whether the symbols written are
\* appended to out (when they are not, their values are left out and the
\* frame stands as 0).
EncodeStep(thrs, tels, frees, shorts, logged) ==
    /\ Live
    /\ \E thr \in thrs, tel \in tels :
       \E fr \in { IF logged THEN make_dshot_frame(thr, tel, bidirectional)
                   ELSE 0 } :
       \E free \in frees, sb \in shorts, sg \in shorts :
       \E r \in { rmt_encode_dshot_esc_short(state, bytes_pos, copy_pos, fr,
                                              free, sb, sg) } :
        LET newFrame == COMPLETE \in call.ret_state
        IN /\ state' = r.state
           /\ bytes_pos' = r.bytes_pos
           /\ copy_pos' = r.copy_pos
           /\ call' = [ entry_state |-> state, mid_state |-> r.mid_state,
                        bytes_invoked |-> r.bytes_invoked,
                        copy_invoked |-> r.copy_invoked,
                        session_bytes |-> r.session_bytes,
                        session_copy |-> r.session_copy,
                        ret_state |-> r.ret_state,
                        encoded_symbols |-> r.encoded_symbols ]
           /\ IF logged
              THEN /\ out' = (IF newFrame THEN << >> ELSE out) \o r.symbols
                   /\ out_idx' = (IF newFrame THEN << >> ELSE out_idx)
                                 \o r.index
                   /\ total' = (IF newFrame THEN 0 ELSE total)
                               + r.encoded_symbols
              ELSE UNCHANGED << out, out_idx, total >>
           /\ calls' = Min((IF newFrame THEN 0 ELSE calls) + 1, MaxCalls)
           /\ after_reset' = (after_reset /\ ~newFrame)
    /\ first_call' = (last_op = "new")
    /\ reset_from' = NoReset
    /\ last_op' = "encode"
    /\ UNCHANGED << objVars, newVars, cmdVars, cfgVars, ret >>

\* the call as the RMT driver makes it, with the ESP-IDF sub-encoders
Encode ==
    /\ Live
    /\ EncodeStep(Throttles, BOOLEAN, 0..MaxFree, {0}, TRUE)

rmt_dshot_encoder_reset_state_only(st, bpos, cpos) ==
    [ state |-> RMT_ENCODING_RESET, bytes_pos |-> bpos, copy_pos |-> cpos,
      ret |-> ESP_OK ]
\* rmt_dshot_encoder_reset: both sub-encoders reset, state = RMT_ENCODING_RESET
rmt_dshot_encoder_reset(st, bpos, cpos) ==
    [ state |-> RMT_ENCODING_RESET, bytes_pos |-> 0, copy_pos |-> 0,
      ret |-> ESP_OK ]

Reset ==
    /\ Live
    /\ LET r == rmt_dshot_encoder_reset(state, bytes_pos, copy_pos)
       IN /\ state' = r.state
          /\ bytes_pos' = r.bytes_pos
          /\ copy_pos' = r.copy_pos
          /\ ret' = r.ret
    /\ last_op' = "reset"
    /\ call' = NoCall /\ out' = << >> /\ out_idx' = << >>
    /\ total' = 0 /\ calls' = 0
    /\ reset_from' = [ state |-> state, bytes_pos |-> bytes_pos ]
    /\ after_reset' = TRUE /\ first_call' = FALSE
    /\ UNCHANGED << objVars, newVars, cmdVars, cfgVars >>

\* rmt_del_dshot_encoder
Del ==
    /\ Live
    /\ bytes_encoder' = "deleted"
    /\ copy_encoder' = "deleted"
    /\ dshot_mem' = "freed"
    /\ ret' = ESP_OK
    /\ last_op' = "del"
    \* the object and its fields are gone with the storage
    /\ bidirectional' = FALSE
    /\ state' = 0 /\ bytes_pos' = 0 /\ copy_pos' = 0
    /\ call' = NoCall /\ out' = << >> /\ out_idx' = << >>
    /\ total' = 0 /\ calls' = 0
    /\ reset_from' = NoReset /\ after_reset' = FALSE /\ first_call' = FALSE
    /\ resolution' = 0 /\ post_delay_us' = 0 /\ dshot_delay_symbol' = NoSymbol
    /\ UNCHANGED << newVars, cmdVars >>

Next == New \/ Encode \/ Reset \/ Del

Spec == Init /\ [][Next]_vars

\* ------------------------------- sub-encoders held only to the interface
\* the encoder as a successful rmt_new_dshot_esc_encoder leaves it
ConstructedInit ==
    /\ dshot_mem = "allocated" /\ bytes_encoder = "live"
    /\ copy_encoder = "live"
    /\ bidirectional \in BOOLEAN
    /\ state = NewState /\ bytes_pos = 0 /\ copy_pos = 0
    /\ throttle = 0 /\ telemetry_req = FALSE /\ frame = 0
    /\ last_op = "new" /\ args = NoArgs /\ ret = ESP_OK
    /\ ret_encoder = TRUE /\ alloc_calls = 1
    /\ call = NoCall /\ out = << >> /\ out_idx = << >>
    /\ total = 0 /\ calls = 0
    /\ reset_from = NoReset /\ after_reset = FALSE /\ first_call = FALSE
    /\ resolution = NewResolution
    /\ post_delay_us = NewPostDelayUs
    /\ dshot_delay_symbol =
           make_dshot_delay_symbol(resolution, post_delay_us)

\* the call with sub-encoders that may return any subset of the two flags:
\* one that stops a symbol early while slots are left returns neither
EncodeAny ==
    /\ Live
    /\ EncodeStep({ExampleThrottle}, {FALSE}, 0..MaxFree, 0..1, TRUE)

NextAny == EncodeAny \/ Reset

SpecAny == ConstructedInit /\ [][NextAny]_vars

\* ------------------------------------------ a caller that keeps calling
\* the RMT driver calls encode again whenever a call returned without
\* COMPLETE, with the command of the transmission; the symbols are not
\* logged
EncodeAgain ==
    /\ Live
    /\ EncodeStep({ExampleThrottle}, {FALSE}, 0..MaxFree, {0}, FALSE)

\* such a call once the channel has sent symbols and slots are free again
EncodeRoom ==
    /\ Live
    /\ EncodeStep({ExampleThrottle}, {FALSE}, 1..MaxFree, {0}, FALSE)

NextLive == EncodeAgain

\* the transmitter drains the channel memory, so a call with a free slot
\* is eventually made
SpecLive == ConstructedInit /\ [][NextLive]_vars /\ WF_vars(EncodeRoom)

\* ------------------------------------------- the delay symbol on its own
\* every configuration in range with a resolution of whole MHz, then the
\* delay symbol is built from it
GapInit ==
    /\ dshot_mem = "none" /\ bytes_encoder = "NULL" /\ copy_encoder = "NULL"
    /\ bidirectional = FALSE
    /\ state = 0 /\ bytes_pos = 0 /\ copy_pos = 0
    /\ throttle = 0 /\ telemetry_req = FALSE /\ frame = 0
    /\ last_op = "config" /\ args = NoArgs /\ ret = ESP_OK
    /\ ret_encoder = FALSE /\ alloc_calls = 0
    /\ call = NoCall /\ out = << >> /\ out_idx = << >>
    /\ total = 0 /\ calls = 0
    /\ reset_from = NoReset /\ after_reset = FALSE /\ first_call = FALSE
    /\ resolution \in Resolutions /\ post_delay_us \in 0..MaxPostDelayUs
    /\ dshot_delay_symbol = NoSymbol

BuildGap ==
    /\ last_op = "config"
    /\ dshot_delay_symbol' =
           make_dshot_delay_symbol(resolution, post_delay_us)
    /\ last_op' = "gap"
    /\ UNCHANGED << objVars, state, bytes_pos, copy_pos, cmdVars, newVars,
                    ret, logVars, resolution, post_delay_us >>

GapNext == BuildGap

SpecGap == GapInit /\ [][GapNext]_vars

\* --------------------------------------------- the frame builder on its own
\* every input of make_dshot_frame in range, then the frame is built and
\* handed to the bytes encoder with room for all of it
\* uint16_t throttle: every value up to MaxThrottleIn, and the commands of
\* Throttles under every setting of the bits 11-15
ThrottleInputs ==
    (0..MaxThrottleIn) \cup { t + 2048 * h : t \in Throttles, h \in 1..31 }

FrameInit ==
    /\ dshot_mem = "none" /\ bytes_encoder = "NULL" /\ copy_encoder = "NULL"
    /\ bidirectional \in BOOLEAN
    /\ state = 0 /\ bytes_pos = 0 /\ copy_pos = 0
    /\ throttle \in ThrottleInputs /\ telemetry_req \in BOOLEAN /\ frame = 0
    /\ last_op = "input" /\ args = NoArgs /\ ret = ESP_OK
    /\ ret_encoder = FALSE /\ alloc_calls = 0
    /\ call = NoCall /\ out = << >> /\ out_idx = << >>
    /\ total = 0 /\ calls = 0
    /\ reset_from = NoReset /\ after_reset = FALSE /\ first_call = FALSE
    /\ resolution = 0 /\ post_delay_us = 0 /\ dshot_delay_symbol = NoSymbol

BuildFrame ==
    /\ last_op = "input"
    /\ frame' = make_dshot_frame(throttle, telemetry_req, bidirectional)
    /\ last_op' = "frame"
    /\ UNCHANGED << objVars, state, bytes_pos, copy_pos, throttle,
                    telemetry_req, newVars, ret, logVars, cfgVars >>

EmitFrame ==
    /\ last_op = "frame"
    /\ LET b == SubEncode(0, FRAME_SYMBOLS, FRAME_SYMBOLS + 1)
       IN /\ out' = BytesSymbols(FrameBytes(frame), 0, b.written)
          /\ out_idx' = BytesIndex(0, b.written)
          /\ total' = b.written
    /\ last_op' = "emit"
    /\ UNCHANGED << objVars, state, bytes_pos, copy_pos, cmdVars, newVars,
                    ret, call, calls, reset_from, after_reset, first_call,
                    cfgVars >>

FrameNext == BuildFrame \/ EmitFrame

SpecFrame == FrameInit /\ [][FrameNext]_vars

\* ================================================================ properties
\* a receiver's view of a frame: the byte swap undone, the fields extracted
UnswappedVal(fr) == ((fr % 256) * 256) + (fr \div 256)
PlacedCrc(fr) == UnswappedVal(fr) % 16
PlacedTelemetry(fr) == (UnswappedVal(fr) \div 16) % 2
PlacedThrottle(fr) == UnswappedVal(fr) \div 32

\* the reference checksum: the low nibble of p ^ (p >> 4) ^ (p >> 8) for the
\* 12-bit payload p = throttle << 1 | telemetry, inverted iff bidirectional
RefPayload(thr, tel) == (2 * thr) + BoolBit(tel)
RefNibble(p) ==
    LET b(i) == (Bit(p, i) + Bit(p, i + 4) + Bit(p, i + 8)) % 2
    IN b(0) + (2 * b(1)) + (4 * b(2)) + (8 * b(3))
RefCrc(thr, tel, bidir) ==
    IF bidir THEN 15 - RefNibble(RefPayload(thr, tel))
    ELSE RefNibble(RefPayload(thr, tel))

FrameBuilt == last_op \in {"frame", "emit"}
Encoded == last_op = "encode"
WholeFrameIndex == [ i \in 1..(FRAME_SYMBOLS + GAP_SYMBOLS) |-> i ]

\* C1: for throttle in 0..2047 the crc placed in the frame is the low nibble
\* of p ^ (p >> 4) ^ (p >> 8), inverted iff bidirectional; throttle 1046
\* without telemetry gives 6, and 9 when bidirectional.
C1_CrcCorrect ==
    (FrameBuilt /\ throttle <= 2047) =>
        /\ PlacedCrc(frame) = RefCrc(throttle, telemetry_req, bidirectional)
        /\ (throttle = 1046 /\ ~telemetry_req) =>
               PlacedCrc(frame) = (IF bidirectional THEN 9 ELSE 6)

C1_Witness ==
    /\ last_op = "frame" /\ throttle = 1046 /\ ~telemetry_req /\ bidirectional
    /\ PlacedCrc(frame) = 9

\* C2: the 16 symbols the MSB-first bytes encoder makes of the 2-byte buffer
\* are throttle[10..0], telemetry, crc[3..0] in this order.
C2_WireOrder ==
    (last_op = "emit") =>
        out = [ i \in 1..FRAME_SYMBOLS |->
                  IF i <= 11 THEN Bit(throttle, 11 - i)
                  ELSE IF i = 12 THEN BoolBit(telemetry_req)
                  ELSE Bit(RefCrc(throttle % 2048, telemetry_req,
                                  bidirectional), 16 - i) ]

C2_Witness ==
    /\ last_op = "emit" /\ throttle = 1046 /\ ~telemetry_req /\ ~bidirectional
    /\ out = << 1,0,0,0,0,0,1,0,1,1,0, 0, 0,1,1,0 >>

\* C3: in state 0, when the bytes encoder reports MEM_FULL without COMPLETE,
\* the copy encoder is not invoked in that call, the state stays 0 and the
\* returned flags are MEM_FULL without COMPLETE.
C3_FrameBufferFull ==
    (Encoded /\ call.entry_state = 0 /\ call.session_bytes = {MEM_FULL}) =>
        /\ ~call.copy_invoked
        /\ state = 0
        /\ MEM_FULL \in call.ret_state /\ COMPLETE \notin call.ret_state

C3_Witness ==
    /\ Encoded /\ call.entry_state = 0 /\ call.session_bytes = {MEM_FULL}
    /\ bytes_pos > 0 /\ ~call.copy_invoked /\ state = 0

\* C4 as stated: in state 0, whenever the bytes encoder reports COMPLETE the
\* state becomes 1 and the copy encoder is invoked in the same call.
C4_Original ==
    (Encoded /\ call.entry_state = 0 /\ COMPLETE \in call.session_bytes) =>
        (call.mid_state = 1 /\ call.copy_invoked)

\* C4 amended: in state 0, whenever the bytes encoder reports COMPLETE the
\* state becomes 1; the copy encoder is invoked in the same call iff the
\* bytes encoder did not also report MEM_FULL, and with MEM_FULL the call
\* returns MEM_FULL alone and leaves the state at 1.
C4_Amended ==
    (Encoded /\ call.entry_state = 0 /\ COMPLETE \in call.session_bytes) =>
        /\ call.mid_state = 1
        /\ call.copy_invoked <=> (MEM_FULL \notin call.session_bytes)
        /\ (MEM_FULL \in call.session_bytes) =>
               (state = 1 /\ call.ret_state = {MEM_FULL})

C4_Witness ==
    /\ Encoded /\ call.entry_state = 0 /\ call.session_bytes = {COMPLETE}
    /\ call.copy_invoked /\ COMPLETE \in call.ret_state
    /\ call.encoded_symbols = FRAME_SYMBOLS + GAP_SYMBOLS

\* C5 as stated: in state 1, if the copy encoder reports COMPLETE the state
\* becomes 0 and COMPLETE is returned; if it reports MEM_FULL the state
\* stays 1 and MEM_FULL is returned.
C5_Original ==
    (Encoded /\ call.entry_state = 1) =>
        /\ (COMPLETE \in call.session_copy) =>
               (state = 0 /\ COMPLETE \in call.ret_state)
        /\ (MEM_FULL \in call.session_copy) =>
               (state = 1 /\ MEM_FULL \in call.ret_state)

\* C5 amended: in state 1, if the copy encoder reports COMPLETE the state
\* becomes 0 and COMPLETE is returned; if it reports MEM_FULL, MEM_FULL is
\* returned; the state stays 1 when it reports MEM_FULL without COMPLETE.
C5_Amended ==
    (Encoded /\ call.entry_state = 1) =>
        /\ call.copy_invoked
        /\ (COMPLETE \in call.session_copy) =>
               (state = 0 /\ COMPLETE \in call.ret_state)
        /\ (MEM_FULL \in call.session_copy) => (MEM_FULL \in call.ret_state)
        /\ (call.session_copy = {MEM_FULL}) =>
               (state = 1 /\ call.ret_state = {MEM_FULL})

C5_Witness ==
    /\ Encoded /\ call.entry_state = 1 /\ call.session_copy = {MEM_FULL}
    /\ state = 1 /\ call.ret_state = {MEM_FULL}

\* one call from the initial positions with room for the whole frame
OneShot ==
    rmt_encode_dshot_esc(0, 0, 0, make_dshot_frame(0, FALSE, FALSE),
                         FRAME_SYMBOLS + GAP_SYMBOLS + 1)

\* C6: when a frame spread over several calls completes, the counts returned
\* add up to the count of one call with room for everything, and the state
\* is the state that call ends in.
C6_Resumable ==
    (Encoded /\ COMPLETE \in call.ret_state) =>
        /\ total = OneShot.encoded_symbols
        /\ state = OneShot.state
        /\ COMPLETE \in OneShot.ret_state

C6_Witness ==
    /\ Encoded /\ COMPLETE \in call.ret_state /\ calls = 2
    /\ call.entry_state = 1 /\ call.encoded_symbols = GAP_SYMBOLS
    /\ total = FRAME_SYMBOLS + GAP_SYMBOLS

\* C7: every encode call that returns COMPLETE leaves the state at 0.
C7_CompleteIdle ==
    (Encoded /\ COMPLETE \in call.ret_state) => state = 0

C7_Witness ==
    /\ Encoded /\ COMPLETE \in call.ret_state /\ state = 0
    /\ calls = MaxCalls /\ after_reset

\* C8: reset from any state leaves state 0 and both sub-encoders at their
\* start and returns ESP_OK; the frame encoded after it starts at the first
\* payload bit and is whole when COMPLETE is returned.
C8_Reset ==
    /\ (last_op = "reset") =>
           /\ state = 0 /\ bytes_pos = 0 /\ copy_pos = 0
           /\ ret = ESP_OK
    /\ (Encoded /\ after_reset) =>
           /\ out_idx = [ i \in 1..Len(out_idx) |-> i ]
           /\ (COMPLETE \in call.ret_state) => out_idx = WholeFrameIndex

C8_Witness ==
    /\ last_op = "reset" /\ reset_from.state = 0 /\ reset_from.bytes_pos > 0
    /\ state = 0 /\ bytes_pos = 0

\* C9: a constructor call that fails anywhere returns an error and does not
\* write *ret_encoder; a null argument gives ESP_ERR_INVALID_ARG without a
\* call of the allocator; only a call in which nothing fails returns ESP_OK,
\* with a handle.
C9_AllOrNothing ==
    (last_op = "new") =>
        LET fails == \/ ~args.config_ok \/ ~args.ret_ok \/ ~args.alloc_ok
                     \/ args.bytes_rc # ESP_OK \/ args.copy_rc # ESP_OK
        IN /\ fails => (ret # ESP_OK /\ ~ret_encoder /\ ~Live)
           /\ (~args.config_ok \/ ~args.ret_ok) =>
                  (ret = ESP_ERR_INVALID_ARG /\ alloc_calls = 0)
           /\ ~fails => (ret = ESP_OK /\ ret_encoder /\ Live)

C9_Witness ==
    /\ last_op = "new" /\ args.config_ok /\ args.ret_ok /\ args.alloc_ok
    /\ args.bytes_rc = ESP_OK /\ args.copy_rc = ESP_ERR_NO_MEM
    /\ ret = ESP_ERR_NO_MEM /\ ~ret_encoder /\ bytes_encoder = "deleted"

\* C10: un-swapping the frame and extracting bits 5-15, bit 4 and bits 0-3
\* gives back throttle and telemetry, and the crc computed again over the
\* extracted fields is the extracted crc.
C10_RoundTrip ==
    (FrameBuilt /\ throttle <= 2047) =>
        /\ PlacedThrottle(frame) = throttle
        /\ PlacedTelemetry(frame) = BoolBit(telemetry_req)
        /\ frame_crc(PlacedThrottle(frame), PlacedTelemetry(frame) = 1,
                     bidirectional) = PlacedCrc(frame)

C10_Witness ==
    /\ last_op = "frame" /\ throttle = 2047 /\ telemetry_req
    /\ PlacedThrottle(frame) = 2047 /\ PlacedTelemetry(frame) = 1

\* C11: a successfully constructed encoder is in state 0 with both
\* sub-encoders at their start, and its first encode call enters case 0 and
\* invokes the bytes encoder: what the call appends are the payload symbols
\* in order, the delay symbol only after the 16th of them.
C11_StartsWithFrame ==
    /\ (last_op = "new" /\ ret = ESP_OK) =>
           (state = 0 /\ bytes_pos = 0 /\ copy_pos = 0)
    /\ (Encoded /\ first_call) =>
           /\ call.entry_state = 0 /\ call.bytes_invoked
           /\ out_idx = [ i \in 1..Len(out_idx) |-> i ]
           /\ \A i \in 1..Len(out) : (out[i] = GAP) => i > FRAME_SYMBOLS

C11_Witness ==
    /\ Encoded /\ first_call /\ call.bytes_invoked
    /\ Len(out) = FRAME_SYMBOLS + GAP_SYMBOLS
    /\ out[FRAME_SYMBOLS + GAP_SYMBOLS] = GAP

\* C12: for every uint16_t throttle, also above 2047, the frame is the one
\* of throttle mod 2048: the bits 11-15 of the argument reach neither the
\* throttle field nor the telemetry bit nor the crc.
C12_ThrottleTruncated ==
    FrameBuilt =>
        /\ frame = make_dshot_frame(throttle % 2048, telemetry_req,
                                    bidirectional)
        /\ PlacedThrottle(frame) = throttle % 2048
        /\ PlacedTelemetry(frame) = BoolBit(telemetry_req)
        /\ PlacedCrc(frame) =
               RefCrc(throttle % 2048, telemetry_req, bidirectional)

C12_Witness ==
    /\ last_op = "frame" /\ throttle = 2048 + ExampleThrottle
    /\ ~telemetry_req /\ ~bidirectional
    /\ PlacedThrottle(frame) = ExampleThrottle /\ PlacedCrc(frame) = 6

\* C13: whatever subset of the two flags the bytes encoder returns, the copy
\* encoder is invoked only when the state is 1 at that point, and while the
\* payload is unfinished (the state still 0 after the bytes encoder) no delay
\* symbol is written and RMT_ENCODING_COMPLETE is not returned.
C13_GapOnlyInGapPhase ==
    Encoded =>
        /\ call.copy_invoked => call.mid_state = 1
        /\ (call.mid_state = 0) =>
               /\ COMPLETE \notin call.ret_state
               /\ call.session_copy = {}
               /\ (out # << >> => out[Len(out)] # GAP)

\* C14: within an encode call the state changes only from 0 to 1, and only
\* when the bytes encoder returned COMPLETE, or from 1 to 0, and only when
\* the copy encoder returned COMPLETE; a call in which neither sub-encoder
\* returns COMPLETE leaves the state as it was on entry.
C14_PhaseSteps ==
    Encoded =>
        /\ (call.mid_state # call.entry_state) =>
               /\ call.entry_state = 0 /\ call.mid_state = 1
               /\ call.bytes_invoked /\ COMPLETE \in call.session_bytes
        /\ (state # call.mid_state) =>
               /\ call.mid_state = 1 /\ state = 0
               /\ call.copy_invoked /\ COMPLETE \in call.session_copy
        /\ (COMPLETE \notin (call.session_bytes \cup call.session_copy)) =>
               state = call.entry_state

C14_Witness ==
    /\ Encoded /\ call.entry_state = 0 /\ call.mid_state = 1 /\ state = 1
    /\ COMPLETE \in call.session_bytes /\ ~call.copy_invoked

\* the 16-bit word a receiver reads from the first n symbols, first symbol
\* most significant
RECURSIVE WireVal(_, _)
WireVal(sym, n) == IF n = 0 THEN 0 ELSE (2 * WireVal(sym, n - 1)) + sym[n]

\* C15: the 16 payload symbols appended for one logical frame are the frame
\* make_dshot_frame builds for one single command, whatever commands the
\* calls of that frame were given.
C15_OneCommand ==
    (Encoded /\ Len(out) >= FRAME_SYMBOLS) =>
        /\ \E thr \in Throttles, tel \in BOOLEAN :
               SubSeq(out, 1, FRAME_SYMBOLS) =
                   BytesSymbols(FrameBytes(make_dshot_frame(thr, tel,
                                                            bidirectional)),
                                0, FRAME_SYMBOLS)
        /\ LET v == WireVal(out, FRAME_SYMBOLS)
           IN v % 16 = RefCrc(v \div 32, (v \div 16) % 2 = 1, bidirectional)

\* C16: with sub-encoders that return MEM_FULL whenever they stop early, the
\* symbols appended for one logical frame are the 16 payload symbols in
\* order and then the delay symbol; the counts returned add up to what was
\* appended, 17 when COMPLETE is returned; a resumed call appends to what is
\* there and rewrites none of it.
C16_Layout ==
    Encoded =>
        /\ Len(out) = total /\ Len(out_idx) = total
        /\ total <= FRAME_SYMBOLS + GAP_SYMBOLS
        /\ out_idx = [ i \in 1..total |-> i ]
        /\ \A i \in 1..total :
               IF i <= FRAME_SYMBOLS THEN out[i] \in {0, 1} ELSE out[i] = GAP
        /\ (COMPLETE \in call.ret_state) =>
               total = FRAME_SYMBOLS + GAP_SYMBOLS

C16_Appends ==
    (Encoded /\ Encoded' /\ COMPLETE \notin call.ret_state) =>
        /\ Len(out') = Len(out) + call'.encoded_symbols
        /\ SubSeq(out', 1, Len(out)) = out

C16_FramePlusGap == [](C16_Layout) /\ [][C16_Appends]_vars

C16_Witness ==
    /\ Encoded /\ COMPLETE \in call.ret_state /\ calls = MaxCalls
    /\ total = FRAME_SYMBOLS + GAP_SYMBOLS /\ call.encoded_symbols = GAP_SYMBOLS

\* C17: when the caller calls again after every call that returned without
\* COMPLETE and free slots keep coming, a call that returns COMPLETE
\* follows; no call writes more than what one pass of the bytes encoder and
\* one pass of the copy encoder can write.
C17_Pending == Live /\ COMPLETE \notin call.ret_state

C17_Done == Encoded /\ COMPLETE \in call.ret_state

C17_EventuallyComplete ==
    /\ [](Encoded => call.encoded_symbols <= FRAME_SYMBOLS + GAP_SYMBOLS)
    /\ (C17_Pending ~> C17_Done)

C17_Witness ==
    /\ Encoded /\ COMPLETE \in call.ret_state /\ calls = MaxCalls
    /\ call.entry_state = 1 /\ ~call.bytes_invoked

\* C18: nothing leaks and nothing is released twice.  The sub-encoders are
\* live exactly while the encoder is; a failed constructor call has freed
\* the storage iff it was allocated and deleted the bytes encoder iff it was
\* created, and there is no copy encoder to delete; after del both
\* sub-encoders are deleted and the storage is freed.
C18_NoLeak ==
    /\ Live <=> (bytes_encoder = "live")
    /\ Live <=> (copy_encoder = "live")
    /\ (last_op = "new" /\ ret # ESP_OK) =>
           LET made_mem == args.config_ok /\ args.ret_ok /\ args.alloc_ok
               made_bytes == made_mem /\ args.bytes_rc = ESP_OK
           IN /\ dshot_mem = (IF made_mem THEN "freed" ELSE "none")
              /\ bytes_encoder = (IF made_bytes THEN "deleted" ELSE "NULL")
              /\ copy_encoder = "NULL"
    /\ (last_op = "del") =>
           /\ bytes_encoder = "deleted" /\ copy_encoder = "deleted"
           /\ dshot_mem = "freed"

C18_Witness ==
    /\ last_op = "del" /\ ret = ESP_OK /\ dshot_mem = "freed"
    /\ bytes_encoder = "deleted" /\ copy_encoder = "deleted"

\* C19: in state 1 the call does the same for every command: the same
\* symbols, count, flags and next state; and an encode call leaves every
\* field of the encoder other than state as it was.
C19_SameForEveryCommand ==
    (Live /\ state = 1) =>
        \A free \in 0..MaxFree, thr \in Throttles, tel \in BOOLEAN :
            rmt_encode_dshot_esc(state, bytes_pos, copy_pos,
                make_dshot_frame(thr, tel, bidirectional), free)
            = rmt_encode_dshot_esc(state, bytes_pos, copy_pos,
                make_dshot_frame(ExampleThrottle, FALSE, bidirectional), free)

C19_OnlyState ==
    Encoded' => UNCHANGED << objVars, dshot_delay_symbol >>

C19_GapIgnoresFrame == [](C19_SameForEveryCommand) /\ [][C19_OnlyState]_vars

C19_Witness ==
    /\ Encoded /\ call.entry_state = 1 /\ call.copy_invoked
    /\ ~call.bytes_invoked /\ call.encoded_symbols = GAP_SYMBOLS
    /\ state = 0

\* C20 as stated: both halves of the delay symbol are low and equally long,
\* and the two durations add up to resolution / 1e6 * post_delay_us.
C20_Original ==
    (last_op = "gap") =>
        /\ dshot_delay_symbol.level0 = 0 /\ dshot_delay_symbol.level1 = 0
        /\ dshot_delay_symbol.duration0 = dshot_delay_symbol.duration1
        /\ dshot_delay_symbol.duration0 + dshot_delay_symbol.duration1
               = (resolution \div 1000000) * post_delay_us

\* C20: both halves of the delay symbol are low and equally long; when half
\* the tick count t = resolution / 1e6 * post_delay_us fits the 15-bit
\* duration field, each half is t / 2 rounded down, so the two add up to t
\* for even t and to t - 1 for odd t.
C20_Amended ==
    (last_op = "gap") =>
        LET t == (resolution \div 1000000) * post_delay_us
        IN /\ dshot_delay_symbol.level0 = 0 /\ dshot_delay_symbol.level1 = 0
           /\ dshot_delay_symbol.duration0 = dshot_delay_symbol.duration1
           /\ (t \div 2 < 32768) =>
                  /\ dshot_delay_symbol.duration0 = t \div 2
                  /\ dshot_delay_symbol.duration0
                         + dshot_delay_symbol.duration1 = t - (t % 2)

C20_Witness ==
    /\ last_op = "gap" /\ resolution = 1000000 /\ post_delay_us = 3
    /\ dshot_delay_symbol.duration0 = 1 /\ dshot_delay_symbol.duration1 = 1

====
